---- MODULE Spec2Model ----
(***************************************************************************)
(* Model of DelaunayTriangulation (Project/DelaunayTriangulation.cpp) and  *)
(* of the data types it uses (Project/DataTypes.h).                        *)
(*                                                                         *)
(* The circumcircle test of the source mixes int and float arithmetic and  *)
(* truncates the centre it computes to int, so its verdicts depend on the  *)
(* rounding of every float operation.  Floats are therefore modelled as    *)
(* IEEE-754 binary32 values: a sign, a 24 bit significand m and an         *)
(* exponent e, standing for m * 2^e, every operation rounding to nearest,  *)
(* ties to even.  All integers that appear stay below 2^31.                *)
(***************************************************************************)
EXTENDS Integers, Sequences, FiniteSets

----
(* int *)

INT_MAX == 2147483647

Abs(n) == IF n < 0 THEN -n ELSE n

\* C++ int division: the quotient is truncated towards zero.
IntDiv(a, b) == IF a >= 0 THEN a \div b ELSE -((-a) \div b)

Pow2(n) == 2 ^ n

\* number of bits of n, 0 < n < 2^30
BitLen(n) == CHOOSE k \in 1..30 : Pow2(k - 1) <= n /\ n < Pow2(k)

----
(* float: [neg, m, e] is (-1)^neg * m * 2^e, m = 0 or 2^23 <= m < 2^24;   *)
(* NonFinite stands for an infinity or a NaN.                              *)

FZero == [neg |-> FALSE, m |-> 0, e |-> 0]

NonFinite == [neg |-> FALSE, m |-> 0, e |-> 1]

\* The float q * 2^e of a significand q <= 2^24 after rounding: 2^24 is
\* 2^23 with the next exponent.
Renormalise(neg, q, e) ==
    IF q = Pow2(24) THEN [neg |-> neg, m |-> Pow2(23), e |-> e + 1]
    ELSE [neg |-> neg, m |-> q, e |-> e]

\* Round to nearest, ties to even: q is the 24 bit significand, rem the bits
\* dropped below it, half the weight of the first of them.
RoundNearestEven(neg, q, rem, half, e, sticky) ==
    IF rem > half \/ (rem = half /\ (sticky \/ q % 2 = 1))
    THEN Renormalise(neg, q + 1, e)
    ELSE Renormalise(neg, q, e)

\* RoundPack for an M of len bits
RoundBits(neg, M, e, sticky, len) ==
    IF len <= 24
    THEN [neg |-> neg, m |-> M * Pow2(24 - len), e |-> e - (24 - len)]
    ELSE RoundNearestEven(neg, M \div Pow2(len - 24), M % Pow2(len - 24),
                          Pow2(len - 25), e + (len - 24), sticky)

\* The float nearest to (M + f) * 2^e, where 0 < M < 2^30, 0 <= f < 1 and
\* sticky tells whether f > 0.  A sticky fraction is only ever passed with
\* M >= 2^25.
RoundPack(neg, M, e, sticky) == RoundBits(neg, M, e, sticky, BitLen(M))

\* static_cast<float>(n), and the implicit conversion of an int operand
IntToFloat(n) ==
    IF n = 0 THEN FZero
    ELSE IF Abs(n) < Pow2(30) THEN RoundPack(n < 0, Abs(n), 0, FALSE)
    ELSE RoundPack(n < 0, Abs(n) \div 2, 1, Abs(n) % 2 = 1)

\* FLT_EPSILON, 2^-23
FLT_EPSILON == [neg |-> FALSE, m |-> Pow2(23), e |-> -46]

FNeg(a) == [a EXCEPT !.neg = ~a.neg]

\* The sum of (-1)^hneg * A and (-1)^lneg * (B + f), times 2^e, where f is a
\* fraction below 1 that the alignment cut off, st telling whether f > 0
\* (then A > B + 1).
AddMagnitudes(hneg, lneg, A, B, st, e) ==
    IF hneg = lneg THEN RoundPack(hneg, A + B, e, st)
    ELSE IF A = B /\ ~st THEN FZero
    ELSE IF A > B THEN RoundPack(hneg, IF st THEN A - B - 1 ELSE A - B, e, st)
    ELSE RoundPack(lneg, B - A, e, FALSE)

\* hi + lo for hi.e >= lo.e: lo is aligned to hi with three more bits
AddAligned(hi, lo, d) ==
    IF d > 27 THEN AddMagnitudes(hi.neg, lo.neg, hi.m * 8, 0, TRUE, hi.e - 3)
    ELSE AddMagnitudes(hi.neg, lo.neg, hi.m * 8, (lo.m * 8) \div Pow2(d),
                       (lo.m * 8) % Pow2(d) # 0, hi.e - 3)

\* a + b
FAdd(a, b) ==
    IF a.m = 0 THEN b
    ELSE IF b.m = 0 THEN a
    ELSE IF a.e >= b.e THEN AddAligned(a, b, a.e - b.e)
    ELSE AddAligned(b, a, b.e - a.e)

\* a - b
FSub(a, b) == FAdd(a, FNeg(b))

\* The float of the product H * 2^24 + L of two significands, times 2^e
MulPack(neg, H, L, e) ==
    RoundPack(neg, H * 4 + L \div Pow2(22), e + 22, L % Pow2(22) # 0)

\* The product of the significands a1 * 2^12 + a0 and b1 * 2^12 + b0 is
\* a1 * b1 * 2^24 + mid * 2^12 + a0 * b0.
MulParts(neg, a1b1, mid, a0b0, e) ==
    MulPack(neg,
            a1b1 + mid \div 4096 + ((mid % 4096) * 4096 + a0b0) \div Pow2(24),
            ((mid % 4096) * 4096 + a0b0) % Pow2(24), e)

\* a * b
FMul(a, b) ==
    IF a.m = 0 \/ b.m = 0 THEN FZero
    ELSE MulParts(a.neg # b.neg, (a.m \div 4096) * (b.m \div 4096),
                  (a.m \div 4096) * (b.m % 4096) + (a.m % 4096) * (b.m \div 4096),
                  (a.m % 4096) * (b.m % 4096), a.e + b.e)

\* n further bits of the quotient of r / d by long division, r < d
RECURSIVE LongDiv(_, _, _, _)
LongDiv(r, d, q, n) ==
    IF n = 0 THEN <<q, r>>
    ELSE IF 2 * r >= d THEN LongDiv(2 * r - d, d, 2 * q + 1, n - 1)
    ELSE LongDiv(2 * r, d, 2 * q, n - 1)

DivPack(neg, qr, e) == RoundPack(neg, qr[1], e, qr[2] # 0)

\* a / b; a division by zero gives an infinity or a NaN
FDiv(a, b) ==
    IF b.m = 0 THEN NonFinite
    ELSE IF a.m = 0 THEN FZero
    ELSE DivPack(a.neg # b.neg, LongDiv(a.m % b.m, b.m, a.m \div b.m, 25),
                 a.e - b.e - 25)

\* Is static_cast<int>(f) defined: f is finite and its truncation is an int.
FloatFitsInt(f) == f # NonFinite /\ (f.m = 0 \/ f.e < 8)

Signed(neg, mag) == IF neg THEN -mag ELSE mag

\* static_cast<int>(f) for a float that fits: truncation towards zero
FloatToInt(f) ==
    IF f.m = 0 THEN 0
    ELSE IF f.e >= 0 THEN Signed(f.neg, f.m * Pow2(f.e))
    ELSE IF f.e < -24 THEN 0
    ELSE Signed(f.neg, f.m \div Pow2(-f.e))

----
(* Vector2 (DataTypes.h) *)

Vector2(x, y) == [x |-> x, y |-> y]

VAdd(a, b) == Vector2(a.x + b.x, a.y + b.y)

VSub(a, b) == Vector2(a.x - b.x, a.y - b.y)

VDivInt(a, divisor) == Vector2(IntDiv(a.x, divisor), IntDiv(a.y, divisor))

----
(* The circumcircle test, lines 156-189.  Its result is a record: ub tells *)
(* that the evaluation has undefined behaviour (a float outside the range  *)
(* of int is converted to int, or an int operation overflows); otherwise   *)
(* inside is the value returned and (x, y) the centre the code computed.   *)

UB == [ub |-> TRUE, inside |-> FALSE, x |-> 0, y |-> 0]

\* (x - v.x) * (x - v.x) + (y - v.y) * (y - v.y) fits an int
SqrDistFits(x, y, v) ==
    /\ Abs(x) <= INT_MAX - Abs(v.x)
    /\ Abs(y) <= INT_MAX - Abs(v.y)
    /\ Abs(x - v.x) <= 46340
    /\ Abs(y - v.y) <= 46340
    /\ (x - v.x) * (x - v.x) <= INT_MAX - (y - v.y) * (y - v.y)

SqrDist(x, y, v) == (x - v.x) * (x - v.x) + (y - v.y) * (y - v.y)

\* lines 182-188: r, rPoint and the comparison
CompareRadius(x, y, v1, vTest) ==
    IF ~SqrDistFits(x, y, v1) \/ ~SqrDistFits(x, y, vTest) THEN UB
    ELSE [ub |-> FALSE, inside |-> SqrDist(x, y, vTest) < SqrDist(x, y, v1),
          x |-> x, y |-> y]

\* line 179, the conversion: int y{ static_cast<int>(...) }
CenterY(x, fy, v1, vTest) ==
    IF ~FloatFitsInt(fy) THEN UB
    ELSE CompareRadius(x, FloatToInt(fy), v1, vTest)

\* line 179, the float: perpSlope0 * x + intercept0
CenterYFloat(x, perpSlope0, intercept0, v1, vTest) ==
    CenterY(x, FAdd(FMul(perpSlope0, IntToFloat(x)), intercept0), v1, vTest)

\* line 178, the conversion: int x{ static_cast<int>(...) }
CenterX(fx, perpSlope0, intercept0, v1, vTest) ==
    IF ~FloatFitsInt(fx) THEN UB
    ELSE CenterYFloat(FloatToInt(fx), perpSlope0, intercept0, v1, vTest)

\* line 178, the float: (intercept1 - intercept0) / (perpSlope0 - perpSlope1)
Intersection(perpSlope0, perpSlope1, intercept0, intercept1, v1, vTest) ==
    CenterX(FDiv(FSub(intercept1, intercept0), FSub(perpSlope0, perpSlope1)),
            perpSlope0, intercept0, v1, vTest)

\* lines 174-175: the intercepts of the two perpendicular lines
Intercepts(perpSlope0, perpSlope1, edge01Center, edge02Center, v1, vTest) ==
    Intersection(perpSlope0, perpSlope1,
                 FSub(IntToFloat(edge01Center.y),
                      FMul(perpSlope0, IntToFloat(edge01Center.x))),
                 FSub(IntToFloat(edge02Center.y),
                      FMul(perpSlope1, IntToFloat(edge02Center.x))),
                 v1, vTest)

\* lines 166-167: the slope of the perpendicular of the edge from v0 to v
PerpSlope(v0, v) ==
    FDiv(IntToFloat(v0.x - v.x), FAdd(IntToFloat(v.y - v0.y), FLT_EPSILON))

Circumcircle(v0, v1, v2, vTest) ==
    Intercepts(PerpSlope(v0, v1), PerpSlope(v0, v2),
               VDivInt(VAdd(v0, v1), 2), VDivInt(VAdd(v0, v2), 2), v1, vTest)

----
(* Bounds and inputs *)

\* rooms passed to one call of Triangulate, at most
MaxRooms == 4

\* the values of screenSize that callers pass
ScreenSizes == {500, 250}

Room(px, py, sx, sy) == [position |-> Vector2(px, py), size |-> Vector2(sx, sy)]

\* The rooms of the callers.  Their centres are (450,50), (250,100), (50,200),
\* (150,200), (300,300) and, for the last room, (150,200) once more.
Rooms ==
    { Room(430, 30, 40, 40), Room(225, 80, 51, 41), Room(35, 190, 30, 21),
      Room(140, 185, 20, 30), Room(280, 275, 41, 51), Room(145, 195, 11, 10) }

----
(* State *)

VARIABLES
    pc,           \* where the instance is: "idle", then inside Triangulate
                  \* "clear", "start", "loop", and "done" once it has returned
    screenSize,   \* the argument of StartTriangulation, 0 outside of the call
    rooms,        \* the rooms of the argument that the loop has passed
    m_Vertices,   \* std::vector<Vector2>; C++ index i is element i + 1
    m_Triangles,  \* std::vector<Triangle>, of C++ vertex indices
    reused,       \* history: the current call is not the first on the instance
    scan          \* history: what the last AddPoint tested, found and removed

vars == <<pc, screenSize, rooms, m_Vertices, m_Triangles, reused, scan>>

Triangle(a, b, c) == [first |-> a, second |-> b, third |-> c]

\* m_Vertices[i] of the C++ code
Vertex(verts, i) == verts[i + 1]

Range(seq) == {seq[i] : i \in 1..Len(seq)}

NoScan ==
    [before |-> <<>>, tested |-> <<>>, removed |-> <<>>, polygon |-> <<>>,
     newIndice |-> -1, ub |-> FALSE]

----
(* The containers: AddVertex, AddTriangle, RemoveTriangle *)

\* AddVertex: appends the vertex; its index is the size before the call
AddVertex(verts, v) == Append(verts, v)

AddTriangle(tris, a, b, c) == Append(tris, Triangle(a, b, c))

\* RemoveTriangle: the last triangle takes the place of the removed one
RemoveTriangle(tris, index) ==
    IF index + 1 = Len(tris) THEN SubSeq(tris, 1, Len(tris) - 1)
    ELSE [SubSeq(tris, 1, Len(tris) - 1) EXCEPT ![index + 1] = tris[Len(tris)]]

----
(* IsInsideCircumcircle *)

IsInsideCircumcircle(verts, triangle, indice) ==
    Circumcircle(Vertex(verts, triangle.first), Vertex(verts, triangle.second),
                 Vertex(verts, triangle.third), Vertex(verts, indice))

\* The test of every triangle of tris against the vertex indice
TestAll(verts, tris, indice) ==
    [t \in Range(tris) |-> IsInsideCircumcircle(verts, t, indice)]

\* The verdicts the scan of AddPoint can get from the results res: the value
\* the test returns, and either value where the test is undefined.
Verdicts(res) ==
    { [t \in DOMAIN res |-> IF res[t].ub THEN t \in S ELSE res[t].inside] :
        S \in SUBSET {t \in DOMAIN res : res[t].ub} }

----
(* AddPoint *)

\* lines 58-93 without the test for the vertices already in the polygon
CollectAll(polygon, t) == polygon \o <<t.first, t.second, t.third>>

\* lines 58-93: the vertices of the triangle that are not yet in the polygon
\* are appended to it
Collect(polygon, t) ==
    IF Len(polygon) > 0
    THEN polygon
           \o (IF t.first \in Range(polygon) THEN <<>> ELSE <<t.first>>)
           \o (IF t.second \in Range(polygon) THEN <<>> ELSE <<t.second>>)
           \o (IF t.third \in Range(polygon) THEN <<>> ELSE <<t.third>>)
    ELSE <<t.first, t.second, t.third>>

\* lines 50-97 with a loop that runs from the first triangle to the last
RECURSIVE ScanUpwards(_, _, _, _, _, _)
ScanUpwards(j, tris, polygon, tested, removed, verdict) ==
    IF j >= Len(tris)
    THEN [triangles |-> tris, polygon |-> polygon, tested |-> tested,
          removed |-> removed]
    ELSE IF ~verdict[tris[j + 1]]
    THEN ScanUpwards(j + 1, tris, polygon, Append(tested, tris[j + 1]),
                     removed, verdict)
    ELSE ScanUpwards(j + 1, RemoveTriangle(tris, j),
                     IF Len(polygon) > 0
                     THEN polygon
                            \o (IF tris[j + 1].first \in Range(polygon)
                                THEN <<>> ELSE <<tris[j + 1].first>>)
                            \o (IF tris[j + 1].second \in Range(polygon)
                                THEN <<>> ELSE <<tris[j + 1].second>>)
                            \o (IF tris[j + 1].third \in Range(polygon)
                                THEN <<>> ELSE <<tris[j + 1].third>>)
                     ELSE <<tris[j + 1].first, tris[j + 1].second,
                            tris[j + 1].third>>,
                     Append(tested, tris[j + 1]),
                     Append(removed, tris[j + 1]), verdict)

ScanTrianglesForward(i, tris, polygon, tested, removed, verdict) ==
    ScanUpwards(0, tris, polygon, tested, removed, verdict)

\* lines 50-97: the loop over the triangles, from C++ index i down to 0
RECURSIVE ScanTriangles(_, _, _, _, _, _)
ScanTriangles(i, tris, polygon, tested, removed, verdict) ==
    IF i < 0
    THEN [triangles |-> tris, polygon |-> polygon, tested |-> tested,
          removed |-> removed]
    ELSE IF ~verdict[tris[i + 1]]
    THEN ScanTriangles(i - 1, tris, polygon, Append(tested, tris[i + 1]),
                       removed, verdict)
    ELSE ScanTriangles(i - 1, RemoveTriangle(tris, i),
                       Collect(polygon, tris[i + 1]), Append(tested, tris[i + 1]),
                       Append(removed, tris[i + 1]), verdict)

\* The order of atan2f(v.y, v.x), shifted by 2 pi when negative, of two int
\* vectors: 0 for the angle 0 (atan2f(0, 0) is 0 too), 1 for the angles
\* between 0 and pi, 2 for pi, 3 for those above pi.
AngleClass(v) ==
    IF v.y = 0 THEN (IF v.x >= 0 THEN 0 ELSE 2)
    ELSE IF v.y > 0 THEN 1 ELSE 3

\* angle0 < angle1 for the angles of vector0 and vector1
VectorAngleLess(vector0, vector1) ==
    \/ AngleClass(vector0) < AngleClass(vector1)
    \/ /\ AngleClass(vector0) = AngleClass(vector1)
       /\ AngleClass(vector0) \in {1, 3}
       /\ vector0.x * vector1.y - vector0.y * vector1.x > 0

\* lines 103-112: the comparison of std::sort
AngleLess(verts, point, indice0, indice1) ==
    VectorAngleLess(VSub(Vertex(verts, indice0), point),
                    VSub(Vertex(verts, indice1), point))

\* lines 100-113: std::sort leaves the order of elements that compare equal
\* unspecified: every arrangement of the positions in left in which no
\* element is followed by a smaller one is a result.
RECURSIVE SortOrders(_, _, _, _)
SortOrders(verts, point, polygon, left) ==
    IF left = {} THEN {<<>>}
    ELSE UNION { { <<polygon[k]>> \o rest :
                     rest \in SortOrders(verts, point, polygon, left \ {k}) } :
                 k \in {k \in left : \A j \in left :
                          ~AngleLess(verts, point, polygon[j], polygon[k])} }

Sorted(verts, point, polygon) ==
    SortOrders(verts, point, polygon, 1..Len(polygon))

\* lines 116-123: one triangle per edge of the polygon, with the new vertex
RECURSIVE Fan(_, _, _, _)
Fan(tris, polygon, i, newIndice) ==
    IF i >= Len(polygon) THEN tris
    ELSE Fan(AddTriangle(tris, polygon[i + 1],
                         polygon[((i + 1) % Len(polygon)) + 1], newIndice),
             polygon, i + 1, newIndice)

\* lines 99-123 for the outcome s of the scan
SortAndFan(verts, point, newIndice, before, s, ub) ==
    { [vertices  |-> verts,
       triangles |-> Fan(s.triangles, polygon, 0, newIndice),
       scan      |-> [before |-> before, tested |-> s.tested,
                      removed |-> s.removed, polygon |-> s.polygon,
                      newIndice |-> newIndice, ub |-> ub]] :
        polygon \in Sorted(verts, point, s.polygon) }

\* lines 46-123 for the results res of the circumcircle tests
ScanSortFan(verts, tris, point, newIndice, res) ==
    UNION { SortAndFan(verts, point, newIndice, tris,
                       ScanTriangles(Len(tris) - 1, tris, <<>>, <<>>, <<>>, verdict),
                       \E t \in DOMAIN res : res[t].ub) :
            verdict \in Verdicts(res) }

\* AddPoint(point) on the containers verts and tris: the containers it can
\* leave, each with the record of its scan
AddPointOutcomes(verts, tris, point) ==
    ScanSortFan(AddVertex(verts, point), tris, point, Len(verts),
                TestAll(AddVertex(verts, point), tris, Len(verts)))

\* line 23: the centre of the room
RoomCenter(room) == VAdd(room.position, VDivInt(room.size, 2))

\* lines 20-24: one pass of the loop of Triangulate
AddPoint(room) ==
    /\ pc = "loop"
    /\ Len(rooms) < MaxRooms
    /\ room \notin Range(rooms)
    /\ \E o \in AddPointOutcomes(m_Vertices, m_Triangles, RoomCenter(room)) :
         /\ m_Vertices' = o.vertices
         /\ m_Triangles' = o.triangles
         /\ scan' = o.scan
    /\ rooms' = Append(rooms, room)
    /\ UNCHANGED <<pc, screenSize, reused>>

----
(* Triangulate, Clear, StartTriangulation, FinishTriangulation *)

\* line 11: Triangulate is called, on a new instance or after an earlier call
Triangulate(size) ==
    /\ pc \in {"idle", "done"}
    /\ pc' = "clear"
    /\ screenSize' = size
    /\ rooms' = <<>>
    /\ reused' = (pc = "done")
    /\ UNCHANGED <<m_Vertices, m_Triangles, scan>>

\* lines 150-154: a Clear that forgets m_Vertices.clear()
ClearKeepsVertices(verts, tris) == [vertices |-> verts, triangles |-> <<>>]

\* lines 150-154: the containers after Clear
ClearOutcome(verts, tris) == [vertices |-> <<>>, triangles |-> <<>>]

Clear ==
    /\ pc = "clear"
    /\ pc' = "start"
    /\ m_Triangles' = ClearOutcome(m_Vertices, m_Triangles).triangles
    /\ m_Vertices' = ClearOutcome(m_Vertices, m_Triangles).vertices
    /\ scan' = NoScan
    /\ UNCHANGED <<screenSize, rooms, reused>>

\* lines 33-35: the vertices of the super triangle
SuperVertices(size) == <<Vector2(0, 0), Vector2(-500, 2500), Vector2(2500, -500)>>

\* lines 30-39, on the containers verts and tris
Seeded(verts, tris, size) ==
    [vertices  |-> AddVertex(AddVertex(AddVertex(verts, SuperVertices(size)[1]),
                                       SuperVertices(size)[2]),
                             SuperVertices(size)[3]),
     triangles |-> AddTriangle(tris, 0, 1, 2)]

StartTriangulation ==
    /\ pc = "start"
    /\ pc' = "loop"
    /\ m_Vertices' = Seeded(m_Vertices, m_Triangles, screenSize).vertices
    /\ m_Triangles' = Seeded(m_Vertices, m_Triangles, screenSize).triangles
    /\ screenSize' = 0
    /\ UNCHANGED <<rooms, reused, scan>>

\* lines 135-146 with a loop that stops one index early
TouchesSuperTwoOnly(t) ==
    \E indice \in 0..1 : t.first = indice \/ t.second = indice \/ t.third = indice

\* lines 135-146: does the triangle have a vertex of the super triangle
TouchesSuper(t) ==
    \E indice \in 0..2 : t.first = indice \/ t.second = indice \/ t.third = indice

\* lines 129-147 with a loop that runs from the first triangle to the last:
\* the triangle that RemoveTriangle moves to index j is never looked at
RECURSIVE RemoveSuperUpwards(_, _)
RemoveSuperUpwards(j, tris) ==
    IF j >= Len(tris) THEN tris
    ELSE IF \E indice \in 0..2 : tris[j + 1].first = indice
                                  \/ tris[j + 1].second = indice
                                  \/ tris[j + 1].third = indice
    THEN RemoveSuperUpwards(j + 1, RemoveTriangle(tris, j))
    ELSE RemoveSuperUpwards(j + 1, tris)

RemoveSuperForward(i, tris) == RemoveSuperUpwards(0, tris)

\* lines 129-147: the loop over the triangles, from C++ index i down to 0
RECURSIVE RemoveSuper(_, _)
RemoveSuper(i, tris) ==
    IF i < 0 THEN tris
    ELSE IF TouchesSuper(tris[i + 1]) THEN RemoveSuper(i - 1, RemoveTriangle(tris, i))
    ELSE RemoveSuper(i - 1, tris)

FinishTriangulation ==
    /\ pc = "loop"
    /\ pc' = "done"
    /\ m_Triangles' = RemoveSuper(Len(m_Triangles) - 1, m_Triangles)
    /\ UNCHANGED <<screenSize, rooms, m_Vertices, reused, scan>>

----
(* Triangulate as a whole, lines 14-27, on an instance whose containers hold *)
(* verts and tris when it is called                                         *)

Containers(verts, tris) == [vertices |-> verts, triangles |-> tris]

\* the containers that the loop of lines 20-24 can leave after the rooms rs
RECURSIVE LoopOutcomes(_, _)
LoopOutcomes(start, rs) ==
    IF rs = <<>> THEN {start}
    ELSE UNION { { Containers(o.vertices, o.triangles) :
                     o \in AddPointOutcomes(c.vertices, c.triangles,
                                            RoomCenter(rs[Len(rs)])) } :
                 c \in LoopOutcomes(start, SubSeq(rs, 1, Len(rs) - 1)) }

\* lines 14-17: Clear, then StartTriangulation
ClearAndSeed(c, size) == Seeded(c.vertices, c.triangles, size)

TriangulateOutcomes(verts, tris, size, rs) ==
    { Containers(c.vertices, RemoveSuper(Len(c.triangles) - 1, c.triangles)) :
        c \in LoopOutcomes(ClearAndSeed(ClearOutcome(verts, tris), size), rs) }

----
Init ==
    /\ pc = "idle"
    /\ screenSize = 0
    /\ rooms = <<>>
    /\ m_Vertices = <<>>
    /\ m_Triangles = <<>>
    /\ reused = FALSE
    /\ scan = NoScan

Next ==
    \/ \E size \in ScreenSizes : Triangulate(size)
    \/ Clear
    \/ StartTriangulation
    \/ \E room \in Rooms : AddPoint(room)
    \/ FinishTriangulation

Spec == Init /\ [][Next]_vars

----
(* Properties *)

TriVerts(t) == {t.first, t.second, t.third}

SuperIndices == {0, 1, 2}

\* the vertex indices of the input points
InputIndices == 3..(Len(m_Vertices) - 1)

Reverse(seq) == [i \in 1..Len(seq) |-> seq[Len(seq) + 1 - i]]

\* C1: after Triangulate has returned, for at least one input point, no
\* triangle of the collection has 0, 1 or 2 as its first, second or third
\* vertex index.
C1_NoSuperVertexInOutput ==
    (pc = "done" /\ Len(rooms) >= 1) =>
        \A t \in Range(m_Triangles) : TriVerts(t) \cap SuperIndices = {}

\* a call with input points has returned triangles
C1_Witness ==
    pc = "done" /\ Len(rooms) >= 1 /\ Len(m_Triangles) >= 2

\* C7: a call of Triangulate with no input point or with exactly one
\* completes, without an undefined circumcircle test, and leaves the triangle
\* collection empty.
C7_FewPointsEmptyOutput ==
    (pc = "done" /\ Len(rooms) <= 1) => (m_Triangles = <<>> /\ ~scan.ub)

\* a call with one input point has returned; its AddPoint removed the super
\* triangle and made three triangles
C7_Witness ==
    /\ pc = "done"
    /\ Len(rooms) = 1
    /\ Len(scan.removed) = 1
    /\ m_Triangles = <<>>

\* C9: after StartTriangulation, after every AddPoint and after
\* FinishTriangulation, every triangle of the collection has three pairwise
\* distinct vertex indices, each in 0 .. (number of vertices - 1).
C9_TrianglesWellFormed ==
    pc \in {"loop", "done"} =>
        \A t \in Range(m_Triangles) :
            /\ t.first # t.second /\ t.first # t.third /\ t.second # t.third
            /\ TriVerts(t) \subseteq 0..(Len(m_Vertices) - 1)

\* an AddPoint has removed several triangles and made a fan of at least four
C9_Witness ==
    /\ pc = "loop"
    /\ Len(scan.removed) >= 2
    /\ Len(scan.polygon) >= 4
    /\ Len(m_Triangles) >= 6

\* the triangle was removed exactly if the test with the result res, where it
\* is defined, found the new point inside
RemovedAsJudged(res, removed) == res.ub \/ (removed = res.inside)

\* C10: in the scan of AddPoint every triangle present when the scan starts
\* is tested exactly once against the new point (from the last to the
\* first), exactly the triangles that the test finds to contain the new
\* point are removed and all the others are kept, and the polygon collected
\* holds exactly the vertex indices of the removed triangles, each once.
C10_ScanRemovesExactly ==
    (pc = "loop" /\ scan.newIndice >= 0) =>
        /\ scan.tested = Reverse(scan.before)
        /\ \A t \in Range(scan.before) :
             RemovedAsJudged(IsInsideCircumcircle(m_Vertices, t, scan.newIndice),
                             t \in Range(scan.removed))
        /\ Range(scan.removed) \subseteq Range(scan.before)
        /\ \A t \in Range(scan.before) :
             (t \in Range(m_Triangles)) = (t \notin Range(scan.removed))
        /\ Range(scan.polygon) = UNION {TriVerts(t) : t \in Range(scan.removed)}
        /\ Cardinality(Range(scan.polygon)) = Len(scan.polygon)

\* a scan has removed two triangles or more, which share vertices, and has
\* kept others
C10_Witness ==
    /\ pc = "loop"
    /\ Len(scan.removed) >= 2
    /\ Len(scan.removed) < Len(scan.before)
    /\ Len(scan.polygon) < 3 * Len(scan.removed)

\* C8: a call of Triangulate on an instance that was used before leaves
\* exactly the vertex list and the triangle list that the same call leaves on
\* a fresh instance, whatever the earlier call was given: it enters its loop
\* with the containers of a fresh instance and, checked for calls with up to
\* three rooms, returns containers that the call can return on a fresh one.
C8_RerunSameAsFresh ==
    /\ (reused /\ pc = "loop" /\ rooms = <<>>) =>
          \A size \in ScreenSizes :
              Containers(m_Vertices, m_Triangles)
                  = ClearAndSeed(Containers(<<>>, <<>>), size)
    /\ (reused /\ pc = "done" /\ Len(rooms) <= 3) =>
          \A size \in ScreenSizes :
              Containers(m_Vertices, m_Triangles)
                  \in TriangulateOutcomes(<<>>, <<>>, size, rooms)

\* a second call on the instance, with three rooms, has returned a triangle
C8_Witness ==
    reused /\ pc = "done" /\ Len(rooms) = 3 /\ Len(m_Triangles) = 1

----
(* Plane geometry of the input points, in exact integer arithmetic *)

Sign(n) == IF n > 0 THEN 1 ELSE IF n < 0 THEN -1 ELSE 0

\* twice the signed area of the triangle a, b, c
Cross(a, b, c) == (b.x - a.x) * (c.y - a.y) - (b.y - a.y) * (c.x - a.x)

LengthSqr(a, b) == (b.x - a.x) * (b.x - a.x) + (b.y - a.y) * (b.y - a.y)

InputPoint(i) == Vertex(m_Vertices, i)

NotAllCollinear ==
    \E i, j, k \in InputIndices :
        Cross(InputPoint(i), InputPoint(j), InputPoint(k)) # 0

\* no three input points on a line; no two of three or more are equal then
NoThreeCollinear ==
    \A i, j, k \in InputIndices :
        (i < j /\ j < k) => Cross(InputPoint(i), InputPoint(j), InputPoint(k)) # 0

\* the segments from a to b and from c to d cross in a point inside both
ProperCross(a, b, c, d) ==
    /\ Sign(Cross(a, b, c)) * Sign(Cross(a, b, d)) < 0
    /\ Sign(Cross(c, d, a)) * Sign(Cross(c, d, b)) < 0

\* The line through two vertices of the triangle s has the triangle u on the
\* other side than s, or on the line.
Separates(s, u) ==
    \E e \in {<<s[1], s[2], s[3]>>, <<s[2], s[3], s[1]>>, <<s[3], s[1], s[2]>>} :
        \A i \in 1..3 :
            Sign(Cross(e[1], e[2], u[i])) * Sign(Cross(e[1], e[2], e[3])) <= 0

TrianglePoints(t) ==
    <<InputPoint(t.first), InputPoint(t.second), InputPoint(t.third)>>

\* The interiors of two triangles meet: each has an area and no line through
\* an edge of one separates them.
Overlap(t, u) ==
    /\ Cross(TrianglePoints(t)[1], TrianglePoints(t)[2], TrianglePoints(t)[3]) # 0
    /\ Cross(TrianglePoints(u)[1], TrianglePoints(u)[2], TrianglePoints(u)[3]) # 0
    /\ ~Separates(TrianglePoints(t), TrianglePoints(u))
    /\ ~Separates(TrianglePoints(u), TrianglePoints(t))

\* The two diagonals of the input points 3, 4, 5, 6 when these are the
\* corners of a convex quadrilateral: the two segments between them that cross.
Diagonals ==
    { d \in { <<{3, 4}, {5, 6}>>, <<{3, 5}, {4, 6}>>, <<{3, 6}, {4, 5}>> } :
        \E a, b \in d[1] : \E c, e \in d[2] :
            /\ a < b /\ c < e
            /\ ProperCross(InputPoint(a), InputPoint(b), InputPoint(c), InputPoint(e)) }

EdgeLengthSqr(edge) ==
    LengthSqr(InputPoint(CHOOSE i \in edge : \A j \in edge : i <= j),
              InputPoint(CHOOSE i \in edge : \A j \in edge : i >= j))

\* the vertices that the first two triangles of the collection share are the
\* ends of the shorter of the two diagonals d
SharesShorterDiagonal(d) ==
    LET shared == TriVerts(m_Triangles[1]) \cap TriVerts(m_Triangles[2])
    IN  /\ shared \in {d[1], d[2]}
        /\ \A other \in {d[1], d[2]} : EdgeLengthSqr(shared) <= EdgeLengthSqr(other)

----
(* Statements that the code does not meet *)

\* C2: for every input of three or more points that are not all on a line,
\* no two of the triangles that Triangulate returns overlap and every input
\* point is a vertex of a returned triangle.
C2_ValidTriangulation ==
    (pc = "done" /\ Len(rooms) >= 3 /\ NotAllCollinear) =>
        /\ \A i \in InputIndices : \E t \in Range(m_Triangles) : i \in TriVerts(t)
        /\ \A j, k \in 1..Len(m_Triangles) :
               j < k => ~Overlap(m_Triangles[j], m_Triangles[k])

\* C3: for every returned triangle and every input point that is not one of
\* its vertices, IsInsideCircumcircle does not find the point inside the
\* circumcircle of the triangle.  Stated for the inputs that have no three
\* points on a line, and for the tests that are defined.
C3_Delaunay ==
    (pc = "done" /\ NoThreeCollinear) =>
        \A t \in Range(m_Triangles) : \A i \in InputIndices \ TriVerts(t) :
            ~IsInsideCircumcircle(m_Vertices, t, i).inside

\* the super triangle that the seed step is said to make for the bounds hint b
ScaledSuperVertices(b) == <<Vector2(0, 0), Vector2(-b, 5 * b), Vector2(5 * b, -b)>>

\* C4: the seed step appends the vertices (0,0), (-b, 5*b) and (5*b, -b) for
\* the bounds hint b that the caller passed and makes the one triangle (0,1,2).
C4_SeedScaledByHint ==
    [][(pc = "start" /\ pc' = "loop") =>
          /\ m_Vertices' = ScaledSuperVertices(screenSize)
          /\ m_Triangles' = <<Triangle(0, 1, 2)>>]_vars

\* C5: for three input points that are not on a line Triangulate returns
\* exactly one triangle, with the vertex indices 3, 4 and 5.
C5_ThreePointsOneTriangle ==
    (pc = "done" /\ Len(rooms) = 3
       /\ Cross(InputPoint(3), InputPoint(4), InputPoint(5)) # 0) =>
        /\ Len(m_Triangles) = 1
        /\ TriVerts(m_Triangles[1]) = {3, 4, 5}

\* C6: for four input points that are the corners of a convex quadrilateral
\* Triangulate returns exactly two triangles, and the edge they share is the
\* shorter diagonal of the quadrilateral.
C6_QuadShorterDiagonal ==
    (pc = "done" /\ Len(rooms) = 4 /\ NoThreeCollinear) =>
        \A d \in Diagonals :
            /\ Len(m_Triangles) = 2
            /\ SharesShorterDiagonal(d)

====
